---- MODULE Spec2Model ----
(***************************************************************************)
(* The world/interaction engine of src/src/main.ts: the deterministic      *)
(* token generator, the sparse override store (modifiedCells), the         *)
(* single-slot inventory, the movement facade with its two controllers,    *)
(* and the localStorage snapshot (saveState / loadState / New Game).       *)
(*                                                                         *)
(* JavaScript values are tagged records so that a value of any type can    *)
(* sit in a variable or in the stored snapshot and be compared.            *)
(***************************************************************************)
EXTENDS Integers, Sequences, FiniteSets, TLC

\* ------------------------------------------------------------------------
\* JavaScript values
\* ------------------------------------------------------------------------
Undefined == [t |-> "undefined"]
Null == [t |-> "null"]
NaN == [t |-> "NaN"]
Num(n) == [t |-> "number", n |-> n]
Str(s) == [t |-> "string", s |-> s]
Arr(a) == [t |-> "array", a |-> a]
Obj(o) == [t |-> "object", o |-> o]

NoProps == [k \in {} |-> Null]

\* One-property and two-property object literals.
Prop(k, v) == [x \in {k} |-> v]

\* a ?? b
Coalesce(a, b) == IF a \in {Null, Undefined} THEN b ELSE a

\* o.k for any value o that is not null/undefined (a missing property, or a
\* property of a primitive, reads as undefined).
GetProp(o, k) ==
  IF o.t = "object" /\ k \in DOMAIN o.o THEN o.o[k] ELSE Undefined

\* ToNumber of a string, for the strings the model stores.
StringToNumber(s) ==
  CASE s = "" -> Num(0)
    [] s = "0" -> Num(0)
    [] s = "1" -> Num(1)
    [] s = "2" -> Num(2)
    [] s = "4" -> Num(4)
    [] OTHER -> NaN

\* Number(v): ECMAScript ToNumber.
Number(v) ==
  CASE v.t = "number" -> v
    [] v.t = "NaN" -> NaN
    [] v.t = "null" -> Num(0)
    [] v.t = "undefined" -> NaN
    [] v.t = "string" -> StringToNumber(v.s)
    [] v.t = "array" ->
         IF Len(v.a) = 0 THEN Num(0)
         ELSE IF Len(v.a) = 1 /\ v.a[1].t = "number" THEN v.a[1]
         ELSE NaN
    [] OTHER -> NaN

\* a === b (an object is only ever compared with a different object here).
StrictEq(a, b) == a = b /\ a.t \notin {"NaN", "object", "array"}

\* a * k  and  a + k  for a constant integer k
Times(a, k) == LET x == Number(a) IN IF x = NaN THEN NaN ELSE Num(x.n * k)
Plus(a, k) == IF a.t = "number" THEN Num(a.n + k) ELSE NaN

Abs(n) == IF n < 0 THEN 0 - n ELSE n

\* Object.entries(v) as a map from own enumerable string keys to values.
ObjectEntries(v) ==
  CASE v.t = "object" -> v.o
    [] v.t = "array" -> [k \in {ToString(x - 1) : x \in 1..Len(v.a)} |->
                           v.a[(CHOOSE x \in 1..Len(v.a) : ToString(x - 1) = k)]]
    [] v.t = "string" -> [k \in {ToString(x - 1) : x \in 1..Len(v.s)} |->
                           Str(SubSeq(v.s, (CHOOSE x \in 1..Len(v.s) : ToString(x - 1) = k),
                                           (CHOOSE x \in 1..Len(v.s) : ToString(x - 1) = k)))]
    [] OTHER -> NoProps

\* JSON.stringify followed by JSON.parse of the text, as the parsed tree:
\* NaN becomes null, an undefined property is dropped, an undefined array
\* element becomes null.
RECURSIVE ToJSON(_)
ToJSON(v) ==
  CASE v.t = "NaN" -> Null
    [] v.t = "object" ->
         Obj([k \in {x \in DOMAIN v.o : v.o[x] # Undefined} |-> ToJSON(v.o[k])])
    [] v.t = "array" ->
         Arr([x \in 1..Len(v.a) |-> IF v.a[x] = Undefined THEN Null ELSE ToJSON(v.a[x])])
    [] OTHER -> v

\* ------------------------------------------------------------------------
\* Program constants
\* ------------------------------------------------------------------------
\* Latitudes and longitudes are counted in units of 0.00001 degree, so the
\* 1e-4 degrees of one grid cell are 10 units.
TILE_DEG == 10
INTERACT_RANGE == 3
GRID_RADIUS == 12
WIN_VALUE == 32

\* ------------------------------------------------------------------------
\* Bounds of the model
\* ------------------------------------------------------------------------
\* Cells the user clicks and the renderer draws: (-1..MaxCoord) x (-1..MaxCoord).
MaxCoord == 3
\* Manual steps keep the player inside (-1..MaxStep) x (-1..MaxStep).
MaxStep == 0

Coords == (0 - 1)..MaxCoord
Cells == Coords \X Coords
Walk == (0 - 1)..MaxStep

\* Positions the device reports, <<latitude, longitude>> in 0.00001 degree:
\* two of them lie in the same cell, one has a negative latitude.
Fixes == {<<4, 4>>, <<9, 2>>, <<0 - 3, 4>>}

\* Viewport centres (as cell indices) the user can pan the map to; the second
\* one leaves the cells with i < 2 outside the drawn grid.
PanCentres == {<<0, 0>>, <<GRID_RADIUS + 2, 0>>}

\* ------------------------------------------------------------------------
\* Coordinates
\* ------------------------------------------------------------------------
\* `${i},${j}`
keyText(i, j) == ToString(i) \o "," \o ToString(j)

\* The keys of the model's cells, computed once.
KeyTexts == [c \in Cells |-> keyText(c[1], c[2])] @@ <<>>

cellKey(i, j) == IF <<i, j>> \in Cells THEN KeyTexts[<<i, j>>] ELSE keyText(i, j)

\* Math.floor(lat / TILE_DEG), exact in the integer units used here
\* (\div rounds towards minus infinity, as Math.floor does).
cellForLatLng(lat, lng) ==
  Obj([k \in {"i", "j"} |-> IF k = "i" THEN Num(lat \div TILE_DEG)
                                        ELSE Num(lng \div TILE_DEG)])

\* leaflet.latLng(i * TILE_DEG, j * TILE_DEG): Leaflet throws
\* "Invalid LatLng object" when a component is NaN.
latLngThrows(pi, pj) == pi.t # "number" \/ pj.t # "number"

\* ------------------------------------------------------------------------
\* Deterministic generator
\* ------------------------------------------------------------------------
\* luck(key) of _luck.ts, in hundredths: a fixed hash of the key text into
\* 0..99.  The key is the text tag ":" i "," j, which spells tag, i and j
\* without ambiguity, so the hash is a function of the three; here it is a
\* linear congruence of the two coordinates.
luck(tag, i, j) ==
  IF tag = "spawn" THEN (37 * i + 37 * j + 73) % 100
                   ELSE (41 * i + 67 * j + 13) % 100

generateTokenFlyweight(i, j) ==
  LET roll == luck("spawn", i, j) IN
  IF roll < 20
  THEN LET r2 == luck("value", i, j) IN
       IF r2 < 33 THEN Num(1) ELSE IF r2 < 66 THEN Num(2) ELSE Num(4)
  ELSE Null

\* ------------------------------------------------------------------------
\* State
\* ------------------------------------------------------------------------
VARIABLES
  pc,             \* "unloaded" | "running" | "crashed": the page's script
  storage,        \* localStorage item under STORAGE_KEY
  playerI, playerJ,
  held,
  modifiedCells,  \* Map<string, CellState>, as a function on its keys
  cellLayers,     \* keys of the cells that have a rectangle on the map
  active,         \* MovementFacade.active, by controller name, or "none"
  keyListener,    \* ButtonController.keyHandler is registered on globalThis
  watchId,        \* GeoController.watchId
  lastSeenCell,   \* GeoController.lastSeenCell
  watches,        \* ids the browser is watching positions for
  geoAvailable,   \* "geolocation" in navigator
  queued,         \* ids of the watches with a success callback queued as a task
  inventoryDiv,   \* what updateInventoryUI() last rendered
  ev              \* the last step taken and the exit its handler took

vars == <<pc, storage, playerI, playerJ, held, modifiedCells, cellLayers, active,
          keyListener, watchId, lastSeenCell, watches, geoAvailable, queued,
          inventoryDiv, ev>>

\* ------------------------------------------------------------------------
\* Persistence
\* ------------------------------------------------------------------------
NoItem == [k |-> "none"]
Text(json) == [k |-> "text", json |-> json]
EmptyText == [k |-> "empty"]
Unparsable == [k |-> "unparsable"]

\* defaultState (modifiedCells is the empty object, movementMode "buttons").
defaultState ==
  [playerI |-> Num(0), playerJ |-> Num(0), held |-> Null,
   modifiedCells |-> Obj(NoProps), movementMode |-> Str("buttons")]

getMode(act) == IF act = "geolocation" THEN "geolocation" ELSE "buttons"

\* The item saveState() writes for the given runtime values.
saveState(pi, pj, h, mc, act) ==
  Text(ToJSON(Obj([k \in {"playerI", "playerJ", "held", "modifiedCells", "movementMode"} |->
    CASE k = "playerI" -> pi
      [] k = "playerJ" -> pj
      [] k = "held" -> h
      [] k = "modifiedCells" -> Obj(mc)
      [] OTHER -> Str(getMode(act))])))

\* loadState(): the record of persisted fields read from the stored item.
loadState(item) ==
  IF item.k # "text" THEN defaultState        \* no item, "" or a parse error
  ELSE IF item.json \in {Null, Undefined} THEN defaultState  \* property of null throws
  ELSE LET parsed == item.json IN
    [playerI |-> Number(Coalesce(GetProp(parsed, "playerI"), defaultState.playerI)),
     playerJ |-> Number(Coalesce(GetProp(parsed, "playerJ"), defaultState.playerJ)),
     held |-> Coalesce(GetProp(parsed, "held"), defaultState.held),
     modifiedCells |-> Coalesce(GetProp(parsed, "modifiedCells"), Obj(NoProps)),
     movementMode |-> Coalesce(GetProp(parsed, "movementMode"), defaultState.movementMode)]

\* Mutant: entries without a token are not restored.
restoreCells_tokensOnly(persisted) ==
  LET all == ObjectEntries(persisted.modifiedCells) IN
  [k \in {x \in DOMAIN all : GetProp(all[x], "token") # Null} |-> all[k]]

\* The Map built from Object.entries(persisted.modifiedCells).
restoreCells(persisted) == ObjectEntries(persisted.modifiedCells)

\* ------------------------------------------------------------------------
\* World view
\* ------------------------------------------------------------------------
\* Mutant: an override whose token is null is read as "no override".
getCellTokenIn_truthy(mc, i, j) ==
  LET k == cellKey(i, j) IN
  IF k \in DOMAIN mc /\ GetProp(mc[k], "token") # Null
  THEN GetProp(mc[k], "token") ELSE generateTokenFlyweight(i, j)

getCellTokenIn(mc, i, j) ==
  LET k == cellKey(i, j) IN
  IF k \in DOMAIN mc THEN GetProp(mc[k], "token") ELSE generateTokenFlyweight(i, j)

getCellToken(i, j) == getCellTokenIn(modifiedCells, i, j)

\* Mutant: a removed token deletes the entry instead of recording its absence.
setCellToken_noAbsent(mc, i, j, token) ==
  LET k == cellKey(i, j) IN
  IF token = Null THEN [x \in DOMAIN mc \ {k} |-> mc[x]]
  ELSE [x \in DOMAIN mc \cup {k} |-> IF x = k THEN Obj(Prop("token", token)) ELSE mc[x]]

\* Mutant: the key is built with the two indices the wrong way round.
setCellToken_swapped(mc, i, j, token) ==
  LET k == cellKey(j, i) IN
  [x \in DOMAIN mc \cup {k} |-> IF x = k THEN Obj(Prop("token", token)) ELSE mc[x]]

\* modifiedCells.set(k, { token })
setCellToken(mc, i, j, token) ==
  LET k == cellKey(i, j) IN
  [x \in DOMAIN mc \cup {k} |-> IF x = k THEN Obj(Prop("token", token)) ELSE mc[x]]

\* ------------------------------------------------------------------------
\* Viewport
\* ------------------------------------------------------------------------
\* The keys updateCells() needs around the viewport centre (ci, cj), among
\* the cells of the model.
neededAround(ci, cj) ==
  {cellKey(c[1], c[2]) : c \in {d \in Cells : /\ Abs(d[1] - ci) <= GRID_RADIUS
                                              /\ Abs(d[2] - cj) <= GRID_RADIUS}}

\* The same set for the centres that occur most, computed once.
Centres == ((0 - 1)..(GRID_RADIUS + 2)) \X Coords
NeededAt == [c \in Centres |-> neededAround(c[1], c[2])] @@ <<>>

needed(ci, cj) ==
  IF <<ci, cj>> \in Centres THEN NeededAt[<<ci, cj>>] ELSE neededAround(ci, cj)

\* Mutant: removing a cell's layer also forgets its override.
updateCells_evict(ci, cj, layers, mc) ==
  LET want == needed(ci, cj)
      drawn == layers \cup want
      gone == {k \in drawn : k \notin want}
  IN [layers |-> {k \in drawn : k \in want},
      cells |-> [k \in DOMAIN mc \ gone |-> mc[k]]]

\* updateCells(): draws the needed cells that have no layer, removes the
\* layers of the others; the override store is handed through untouched
\* ("do NOT delete modifiedCells").
updateCells(ci, cj, layers, mc) ==
  LET want == needed(ci, cj)
      drawn == layers \cup want
  IN [layers |-> {k \in drawn : k \in want}, cells |-> mc]

\* ------------------------------------------------------------------------
\* Movement facade and controllers
\* ------------------------------------------------------------------------
Facade == [active |-> active, keyListener |-> keyListener,
           watchId |-> watchId, watches |-> watches]

NoFacade == [active |-> "none", keyListener |-> FALSE, watchId |-> Null, watches |-> {}]

\* The id navigator.geolocation.watchPosition returns: one not in use.
newWatchId(ws) == CHOOSE n \in 1..(Cardinality(ws) + 1) : n \notin ws

\* Mutant: ButtonController.disable leaves its key listener registered.
disable_keepKey(f) ==
  CASE f.active = "geolocation" ->
         IF f.watchId # Null
         THEN [f EXCEPT !.watches = @ \ {f.watchId.n}, !.watchId = Null]
         ELSE f
    [] OTHER -> f

\* this.active.disable(), when a controller is active
disable(f) ==
  CASE f.active = "buttons" -> [f EXCEPT !.keyListener = FALSE]
    [] f.active = "geolocation" ->
         IF f.watchId # Null
         THEN [f EXCEPT !.watches = @ \ {f.watchId.n}, !.watchId = Null]
         ELSE f
    [] OTHER -> f

\* ButtonController.enable / GeoController.enable when geolocation exists
enableButtons(f) == [f EXCEPT !.keyListener = TRUE]
enableGeo(f) ==
  LET id == newWatchId(f.watches) IN
  [f EXCEPT !.watchId = Num(id), !.watches = @ \cup {id}]

\* MovementFacade.setMode(mode) for one of the two controller names; without
\* geolocation, GeoController.enable() calls setMode("buttons") itself.
setModeButtons(f) == enableButtons([disable(f) EXCEPT !.active = "buttons"])

\* Mutant: without geolocation, GeoController.enable() gives up silently.
setMode_noFallback(mode, f) ==
  IF mode = "buttons" THEN setModeButtons(f)
  ELSE LET g == [disable(f) EXCEPT !.active = "geolocation"] IN
       IF geoAvailable THEN enableGeo(g) ELSE g

setMode(mode, f) ==
  IF mode = "buttons" THEN setModeButtons(f)
  ELSE LET g == [disable(f) EXCEPT !.active = "geolocation"] IN
       IF geoAvailable THEN enableGeo(g) ELSE setModeButtons(g)

ValidMode(m) == m \in {Str("buttons"), Str("geolocation")}

Event(op, i, j, exit) == [op |-> op, i |-> i, j |-> j, exit |-> exit]

\* ------------------------------------------------------------------------
\* Inventory panel
\* ------------------------------------------------------------------------
\* updateInventoryUI(): the panel names the carried token and always ends with
\* the fixed line "Win: craft token >= 32"; nothing in it depends on a token
\* having reached WIN_VALUE, so it never reports a win.
updateInventoryUI(h) ==
  [holding |-> IF h = Null THEN Str("nothing") ELSE h, goal |-> WIN_VALUE, win |-> FALSE]

\* The panel before the first rendering.
EmptyPanel == [holding |-> Undefined, goal |-> 0, win |-> FALSE]

\* ------------------------------------------------------------------------
\* Startup: the module's top-level code, on page load or reload
\* ------------------------------------------------------------------------
Startup ==
  LET persisted == loadState(storage)
      mc == restoreCells(persisted)
      crash == \/ latLngThrows(persisted.playerI, persisted.playerJ)
               \/ ~ValidMode(persisted.movementMode)
  IN
  /\ playerI' = persisted.playerI
  /\ playerJ' = persisted.playerJ
  /\ held' = persisted.held
  /\ lastSeenCell' = Null
  /\ queued' = {}                           \* the old page's tasks are gone
  /\ UNCHANGED geoAvailable
  /\ IF crash
     THEN /\ pc' = "crashed"
          /\ inventoryDiv' = EmptyPanel
          /\ cellLayers' = {}
          /\ active' = "none"
          /\ keyListener' = FALSE
          /\ watchId' = Null
          /\ watches' = {}
          /\ modifiedCells' = mc
          /\ UNCHANGED storage
          /\ ev' = Event("startup", 0, 0, "crashed")
     ELSE LET f == setMode(persisted.movementMode.s, NoFacade)
              u == updateCells(persisted.playerI.n, persisted.playerJ.n, {}, mc)
          IN
          /\ pc' = "running"
          /\ cellLayers' = u.layers
          /\ modifiedCells' = u.cells
          /\ active' = f.active
          /\ keyListener' = f.keyListener
          /\ watchId' = f.watchId
          /\ watches' = f.watches
          /\ storage' = saveState(persisted.playerI, persisted.playerJ, persisted.held,
                                  u.cells, f.active)
          /\ inventoryDiv' = updateInventoryUI(persisted.held)
          /\ ev' = Event("startup", 0, 0, "ok")

\* ------------------------------------------------------------------------
\* Cell click: pick up or craft
\* ------------------------------------------------------------------------
\* Mutant: the comparison is strict.
inRange_strict(i, j) ==
  /\ playerI.t = "number" /\ playerJ.t = "number"
  /\ Abs(i - playerI.n) < INTERACT_RANGE
  /\ Abs(j - playerJ.n) < INTERACT_RANGE

inRange(i, j) ==
  /\ playerI.t = "number" /\ playerJ.t = "number"
  /\ Abs(i - playerI.n) <= INTERACT_RANGE
  /\ Abs(j - playerJ.n) <= INTERACT_RANGE

\* held === null && cellValue !== null
canPickUp(h, cellValue) == h = Null /\ cellValue # Null

\* Mutant: a carried token may be put on any cell.
canCraft_anyCell(h, cellValue) == h # Null

\* Mutant: a carried token may also be put down on an empty cell.
canCraft_onEmpty(h, cellValue) == h # Null /\ (cellValue = Null \/ StrictEq(h, cellValue))

\* held !== null && cellValue !== null && held === cellValue
canCraft(h, cellValue) == h # Null /\ cellValue # Null /\ StrictEq(h, cellValue)

\* Mutant: the crafted token keeps the old value.
newVal_same(h) == h

\* Mutant: the crafted token is worth three times the carried one.
newVal_triple(h) == Times(h, 3)

\* const newVal = held * 2
newVal(h) == Times(h, 2)

\* Mutant: the carried token is not given up.
heldAfterCraft_kept == held

\* held = null, before the crafted token is placed
heldAfterCraft == Null

handleCellClick(i, j) ==
  /\ pc = "running"
  /\ cellKey(i, j) \in cellLayers          \* the rectangle that was clicked exists
  /\ UNCHANGED <<pc, playerI, playerJ, cellLayers, active, keyListener, watchId,
                 lastSeenCell, watches, geoAvailable, queued>>
  /\ LET cellValue == getCellToken(i, j) IN
     IF ~inRange(i, j)
     THEN /\ ev' = Event("click", i, j, "tooFar")
          /\ UNCHANGED <<held, modifiedCells, storage, inventoryDiv>>
     ELSE IF canPickUp(held, cellValue)
     THEN /\ held' = cellValue
          /\ modifiedCells' = setCellToken(modifiedCells, i, j, Null)
          /\ storage' = saveState(playerI, playerJ, held', modifiedCells', active)
          /\ inventoryDiv' = updateInventoryUI(held')
          /\ ev' = Event("click", i, j, "pickup")
     ELSE IF canCraft(held, cellValue)
     THEN /\ held' = heldAfterCraft
          /\ modifiedCells' = setCellToken(modifiedCells, i, j, newVal(held))
          /\ storage' = saveState(playerI, playerJ, held', modifiedCells', active)
          /\ inventoryDiv' = updateInventoryUI(held')
          /\ ev' = Event("click", i, j, "merge")
     ELSE /\ ev' = Event("click", i, j, "cannot")
          /\ UNCHANGED <<held, modifiedCells, storage, inventoryDiv>>

\* ------------------------------------------------------------------------
\* Movement
\* ------------------------------------------------------------------------
Directions == {<<1, 0>>, <<0 - 1, 0>>, <<0, 1>>, <<0, 0 - 1>>}

\* Mutant: the step is not saved.
movePlayer_noSave(di, dj) ==
  LET pi == Plus(playerI, di)
      pj == Plus(playerJ, dj)
      u == updateCells(pi.n, pj.n, cellLayers, modifiedCells)
  IN
  /\ pi.n \in Walk /\ pj.n \in Walk
  /\ playerI' = pi
  /\ playerJ' = pj
  /\ cellLayers' = u.layers
  /\ modifiedCells' = u.cells
  /\ UNCHANGED <<storage, pc, held, active, keyListener, watchId, lastSeenCell, watches,
                 geoAvailable, queued, inventoryDiv>>

\* Mutant: cells forget their state when the player steps.
movePlayer_forget(di, dj) ==
  LET pi == Plus(playerI, di)
      pj == Plus(playerJ, dj)
      u == updateCells(pi.n, pj.n, cellLayers, modifiedCells)
  IN
  /\ pi.n \in Walk /\ pj.n \in Walk        \* bound of the model
  /\ playerI' = pi
  /\ playerJ' = pj
  /\ cellLayers' = u.layers
  /\ modifiedCells' = NoProps
  /\ storage' = saveState(pi, pj, held, NoProps, active)
  /\ UNCHANGED <<pc, held, active, keyListener, watchId, lastSeenCell, watches,
                 geoAvailable, queued, inventoryDiv>>

\* movePlayer(di, dj): step, recentre the map on the player, update the
\* drawn cells, save.
movePlayer(di, dj) ==
  LET pi == Plus(playerI, di)
      pj == Plus(playerJ, dj)
      u == updateCells(pi.n, pj.n, cellLayers, modifiedCells)
  IN
  /\ pi.n \in Walk /\ pj.n \in Walk        \* bound of the model
  /\ playerI' = pi
  /\ playerJ' = pj
  /\ cellLayers' = u.layers
  /\ modifiedCells' = u.cells
  /\ storage' = saveState(pi, pj, held, u.cells, active)
  /\ UNCHANGED <<pc, held, active, keyListener, watchId, lastSeenCell, watches,
                 geoAvailable, queued, inventoryDiv>>

\* An on-screen N/S/E/W button: movementFacade.manualMove(di, dj).
ButtonMove(di, dj) ==
  /\ pc = "running"
  /\ movePlayer(di, dj)
  /\ ev' = Event("button", di, dj, "moved")

\* An arrow key, while ButtonController's listener is registered.
KeyMove(di, dj) ==
  /\ pc = "running"
  /\ keyListener
  /\ movePlayer(di, dj)
  /\ ev' = Event("key", di, dj, "moved")

\* The browser has a position for watch w and queues a task that will run
\* the watch's success callback.  clearWatch() ends the watch; it does not
\* withdraw a task that is already queued.
GeoFix(w) ==
  /\ pc = "running"
  /\ w \in watches
  /\ queued' = queued \cup {w}
  /\ UNCHANGED <<pc, storage, playerI, playerJ, held, modifiedCells, cellLayers, active,
                 keyListener, watchId, lastSeenCell, watches, geoAvailable, inventoryDiv>>
  /\ ev' = Event("fix", 0, 0, "queued")

\* Mutant: every update is processed.
cellChanged_always(last, c) == TRUE

\* !this.lastSeenCell || this.lastSeenCell.i !== c.i || this.lastSeenCell.j !== c.j
cellChanged(last, c) ==
  \/ last = Null
  \/ ~StrictEq(GetProp(last, "i"), GetProp(c, "i"))
  \/ ~StrictEq(GetProp(last, "j"), GetProp(c, "j"))

\* A queued task of watch w runs the watchPosition success callback with the
\* position it carries; last tells whether it was the watch's last queued
\* task.  ev records the cell the position falls in.
GeoPosition(w, lat, lng, last) ==
  /\ pc = "running"
  /\ w \in queued
  /\ queued' = IF last THEN queued \ {w} ELSE queued
  /\ UNCHANGED <<pc, held, active, keyListener, watchId, watches, geoAvailable, inventoryDiv>>
  /\ LET c == cellForLatLng(lat, lng) IN
     IF cellChanged(lastSeenCell, c)
     THEN LET u == updateCells(c.o.i.n, c.o.j.n, cellLayers, modifiedCells) IN
          /\ lastSeenCell' = c
          /\ playerI' = c.o.i
          /\ playerJ' = c.o.j
          /\ cellLayers' = u.layers
          /\ modifiedCells' = u.cells
          /\ storage' = saveState(playerI', playerJ', held, u.cells, active)
          /\ ev' = Event("geo", c.o.i.n, c.o.j.n, "moved")
     ELSE /\ UNCHANGED <<lastSeenCell, playerI, playerJ, cellLayers, modifiedCells, storage>>
          /\ ev' = Event("geo", c.o.i.n, c.o.j.n, "same")

\* Common end of a handler that calls movementFacade.setMode(mode).
ApplyMode(mode, pi, pj, h, mc) ==
  LET f == setMode(mode, Facade) IN
  /\ active' = f.active
  /\ keyListener' = f.keyListener
  /\ watchId' = f.watchId
  /\ watches' = f.watches
  /\ storage' = saveState(pi, pj, h, mc, f.active)

\* The watchPosition error callback of watch w (error or permission denied).
GeoError(w) ==
  /\ pc = "running"
  /\ w \in watches
  /\ ApplyMode("buttons", playerI, playerJ, held, modifiedCells)
  /\ UNCHANGED <<pc, playerI, playerJ, held, modifiedCells, cellLayers, lastSeenCell,
                 geoAvailable, queued, inventoryDiv>>
  /\ ev' = Event("geoError", 0, 0, "fallback")

\* Click on the mode toggle button.
ToggleMode ==
  /\ pc = "running"
  /\ LET newMode == IF getMode(active) = "geolocation" THEN "buttons" ELSE "geolocation"
     IN ApplyMode(newMode, playerI, playerJ, held, modifiedCells)
  /\ UNCHANGED <<pc, playerI, playerJ, held, modifiedCells, cellLayers, lastSeenCell,
                 geoAvailable, queued, inventoryDiv>>
  /\ ev' = Event("toggle", 0, 0, "done")

\* Mutant: the reset leaves the carried token in hand.
NewGame_keepHeld(confirmed) ==
  /\ pc = "running"
  /\ IF ~confirmed
     THEN /\ UNCHANGED <<pc, storage, playerI, playerJ, held, modifiedCells, cellLayers,
                         active, keyListener, watchId, lastSeenCell, watches, geoAvailable, queued, inventoryDiv>>
          /\ ev' = Event("newGame", 0, 0, "declined")
     ELSE LET cleared == NoProps
              \* renderPlayer() does not move the view: updateCells() runs for the
              \* centre the drawn cells already surround
              u == [layers |-> cellLayers, cells |-> cleared]
          IN
          /\ playerI' = defaultState.playerI
          /\ playerJ' = defaultState.playerJ
          /\ held' = held
          /\ modifiedCells' = u.cells
          /\ cellLayers' = u.layers
          /\ inventoryDiv' = updateInventoryUI(held')
          /\ ApplyMode("buttons", playerI', playerJ', held', u.cells)
          /\ UNCHANGED <<pc, lastSeenCell, geoAvailable, queued>>
          /\ ev' = Event("newGame", 0, 0, "reset")

\* Mutant: the reset only removes the stored item; nothing is saved after it.
NewGame_cleared(confirmed) ==
  /\ pc = "running"
  /\ IF ~confirmed
     THEN /\ UNCHANGED <<pc, storage, playerI, playerJ, held, modifiedCells, cellLayers,
                         active, keyListener, watchId, lastSeenCell, watches, geoAvailable, queued, inventoryDiv>>
          /\ ev' = Event("newGame", 0, 0, "declined")
     ELSE LET cleared == NoProps
              \* renderPlayer() does not move the view: updateCells() runs for the
              \* centre the drawn cells already surround
              u == [layers |-> cellLayers, cells |-> cleared]
          IN
          /\ playerI' = defaultState.playerI
          /\ playerJ' = defaultState.playerJ
          /\ held' = defaultState.held
          /\ modifiedCells' = u.cells
          /\ cellLayers' = u.layers
          /\ inventoryDiv' = updateInventoryUI(held')
          /\ LET f == setMode("buttons", Facade) IN
             /\ active' = f.active
             /\ keyListener' = f.keyListener
             /\ watchId' = f.watchId
             /\ watches' = f.watches
          /\ storage' = NoItem
          /\ UNCHANGED <<pc, lastSeenCell, geoAvailable, queued>>
          /\ ev' = Event("newGame", 0, 0, "reset")

\* Click on New Game; the user answers the confirm() dialog.
NewGame(confirmed) ==
  /\ pc = "running"
  /\ IF ~confirmed
     THEN /\ UNCHANGED <<pc, storage, playerI, playerJ, held, modifiedCells, cellLayers,
                         active, keyListener, watchId, lastSeenCell, watches, geoAvailable, queued, inventoryDiv>>
          /\ ev' = Event("newGame", 0, 0, "declined")
     ELSE LET cleared == NoProps
              \* renderPlayer() does not move the view: updateCells() runs for the
              \* centre the drawn cells already surround
              u == [layers |-> cellLayers, cells |-> cleared]
          IN
          /\ playerI' = defaultState.playerI
          /\ playerJ' = defaultState.playerJ
          /\ held' = defaultState.held
          /\ modifiedCells' = u.cells
          /\ cellLayers' = u.layers
          /\ inventoryDiv' = updateInventoryUI(held')
          /\ ApplyMode("buttons", playerI', playerJ', held', u.cells)
          /\ UNCHANGED <<pc, lastSeenCell, geoAvailable, queued>>
          /\ ev' = Event("newGame", 0, 0, "reset")

\* The user pans the map: "moveend" runs updateCells() for the new centre.
MapPan(ci, cj) ==
  /\ pc = "running"
  /\ LET u == updateCells(ci, cj, cellLayers, modifiedCells) IN
     /\ cellLayers' = u.layers
     /\ modifiedCells' = u.cells
  /\ UNCHANGED <<pc, storage, playerI, playerJ, held, active, keyListener, watchId,
                 lastSeenCell, watches, geoAvailable, queued, inventoryDiv>>
  /\ ev' = Event("pan", 0, 0, "done")

\* ------------------------------------------------------------------------
\* Specifications
\* ------------------------------------------------------------------------
\* Before the page's script has run; the stored item is what an earlier
\* session left.
Unloaded(item) ==
  /\ pc = "unloaded"
  /\ storage = item
  /\ playerI = Undefined /\ playerJ = Undefined /\ held = Undefined
  /\ modifiedCells = NoProps
  /\ cellLayers = {}
  /\ active = "none" /\ keyListener = FALSE /\ watchId = Null
  /\ lastSeenCell = Null /\ watches = {}
  /\ geoAvailable \in BOOLEAN
  /\ queued = {}
  /\ inventoryDiv = EmptyPanel
  /\ ev = Event("none", 0, 0, "none")

Init == Unloaded(NoItem)

Next ==
  \/ Startup
  \/ \E c \in Cells : handleCellClick(c[1], c[2])
  \/ \E d \in Directions : ButtonMove(d[1], d[2])
  \/ \E d \in Directions : KeyMove(d[1], d[2])
  \/ \E w \in watches : GeoFix(w)
  \/ \E w \in queued, p \in Fixes, last \in BOOLEAN : GeoPosition(w, p[1], p[2], last)
  \/ \E w \in watches : GeoError(w)
  \/ ToggleMode
  \/ \E confirmed \in BOOLEAN : NewGame(confirmed)
  \/ \E c \in PanCentres : MapPan(c[1], c[2])

Spec == Init /\ [][Next]_vars

\* ------------------------------------------------------------------------
\* Startup from an arbitrary stored item
\* ------------------------------------------------------------------------
\* A snapshot object with the given fields (an Undefined field is absent).
Snapshot(pi, pj, h, cells, mode) ==
  Text(ToJSON(Obj([k \in {"playerI", "playerJ", "held", "modifiedCells", "movementMode"} |->
    CASE k = "playerI" -> pi
      [] k = "playerJ" -> pj
      [] k = "held" -> h
      [] k = "modifiedCells" -> cells
      [] OTHER -> mode])))

\* {"-1,2": {token: null}}: the token of cell (-1, 2) was picked up.
SavedCells == Obj(Prop(cellKey(0 - 1, 2), Obj(Prop("token", Null))))

\* {"0,1": {token: 16}}: a token of value 16 was crafted on cell (0, 1).
CraftedCells == Obj(Prop(cellKey(0, 1), Obj(Prop("token", Num(WIN_VALUE \div 2)))))

\* Items localStorage can hold when the page loads: none, text that is not a
\* snapshot, snapshots this program wrote (one of them late in a game, with
\* tokens of half the winning value in hand and on a cell), and snapshots
\* with one field missing or of the wrong kind.
RawItems ==
  {NoItem, EmptyText, Unparsable, Text(Null), Text(Num(5))}
  \cup {Snapshot(Num(0 - 1), Num(0), Num(1), SavedCells, Str("buttons"))}
  \cup {Snapshot(Num(0), Num(0), Num(WIN_VALUE \div 2), CraftedCells, Str("buttons"))}
  \cup {Snapshot(Num(0 - 1), Num(0), Null, cells, Str("buttons")) :
          cells \in {Str("ab"), Arr(<<Num(4)>>), Num(7), Null, Undefined}}
  \cup {Snapshot(pi, Num(0), Null, SavedCells, Str("buttons")) :
          pi \in {Str("abc"), Str("1"), Undefined}}
  \cup {Snapshot(Num(0), Num(0 - 1), h, SavedCells, mode) :
          h \in {Str("4")}, mode \in {Str("geolocation"), Str("live")}}

InitLoad == \E item \in RawItems : Unloaded(item)

SpecLoad == InitLoad /\ [][Next]_vars

\* ------------------------------------------------------------------------
\* Properties
\* ------------------------------------------------------------------------
IsToken(v) == v.t = "number" /\ v.n > 0

\* The step is a click on cell c.
ClickOn(c) == ev'.op = "click" /\ ev'.i = c[1] /\ ev'.j = c[2]

\* Chebyshev distance from the player to cell c
Cheb(c) ==
  LET di == Abs(c[1] - playerI.n)
      dj == Abs(c[2] - playerJ.n)
  IN IF di >= dj THEN di ELSE dj

TokenAt(c) == getCellTokenIn(modifiedCells, c[1], c[2])
TokenAfter(c) == getCellTokenIn(modifiedCells', c[1], c[2])
KeyOf(c) == cellKey(c[1], c[2])
Absent == Obj(Prop("token", Null))

\* C1. Pick-up: a click on an in-range cell c by a player who holds nothing,
\* where c reads as a token v, ends with held = v and c reading as absent,
\* the absence being recorded as an explicit override entry at c.
C1_PickUp ==
  [][\A c \in Cells :
       (ClickOn(c) /\ Cheb(c) <= INTERACT_RANGE /\ held = Null /\ IsToken(TokenAt(c)))
       => /\ held' = TokenAt(c)
          /\ TokenAfter(c) = Null
          /\ KeyOf(c) \in DOMAIN modifiedCells'
          /\ modifiedCells'[KeyOf(c)] = Absent]_vars

C1_Witness ==
  /\ ev.op = "click" /\ ev.exit = "pickup"
  /\ IsToken(held)
  /\ KeyOf(<<ev.i, ev.j>>) \in DOMAIN modifiedCells
  /\ modifiedCells[KeyOf(<<ev.i, ev.j>>)] = Absent
  /\ generateTokenFlyweight(ev.i, ev.j) = held

\* C2. Merge: a click on an in-range cell c by a player who holds token v,
\* where c reads as a token of exactly the value v, ends with c reading as
\* 2v and nothing held; the range is taken from the player's position at the
\* time of the click, wherever earlier moves have put the player.
C2_Merge ==
  [][\A c \in Cells :
       (ClickOn(c) /\ Cheb(c) <= INTERACT_RANGE /\ IsToken(held) /\ TokenAt(c) = held)
       => /\ TokenAfter(c) = Num(2 * held.n)
          /\ held' = Null]_vars

\* a merge into 4 made after the player has walked away from the start cell
C2_Witness ==
  /\ ev.op = "click" /\ ev.exit = "merge"
  /\ held = Null
  /\ TokenAt(<<ev.i, ev.j>>) = Num(4)
  /\ playerI = Num(0 - 1) /\ playerJ = Num(0 - 1)

\* C3. Range boundary: a click on cell c passes the range check exactly when
\* max(|c.i - playerI|, |c.j - playerJ|) <= 3 for the player's position at
\* that moment: distance 3 is interactable, distance 4 or more is too far.
C3_RangeBoundary ==
  [][\A c \in Cells :
       ClickOn(c) => ((ev'.exit # "tooFar") <=> (Cheb(c) <= 3))]_vars

\* a token taken from a cell at distance exactly 3
C3_Witness ==
  /\ ev.op = "click" /\ ev.exit = "pickup"
  /\ Cheb(<<ev.i, ev.j>>) = 3

Rejected(c) ==
  \/ Cheb(c) > INTERACT_RANGE
  \/ held = Null /\ TokenAt(c) = Null
  \/ held # Null /\ TokenAt(c) = Null
  \/ held # Null /\ TokenAt(c) # Null /\ TokenAt(c) # held

\* C4. A rejected click changes nothing: when the target is out of range, or
\* in range with nothing held and an empty cell, or with a token held and an
\* empty cell or a cell of another value, then held, the override store, the
\* player position, the movement mode and the stored snapshot stay as they
\* were.
C4_RejectedUnchanged ==
  [][\A c \in Cells :
       (ClickOn(c) /\ Rejected(c))
       => UNCHANGED <<held, modifiedCells, playerI, playerJ, active, keyListener,
                      watchId, watches, storage>>]_vars

\* a click on an empty in-range cell while a token is carried
C4_Witness ==
  /\ ev.op = "click" /\ ev.exit = "cannot"
  /\ IsToken(held)
  /\ TokenAt(<<ev.i, ev.j>>) = Null
  /\ Cheb(<<ev.i, ev.j>>) <= INTERACT_RANGE

Resolves(c) ==
  IF KeyOf(c) \in DOMAIN modifiedCells
  THEN TokenAt(c) = modifiedCells[KeyOf(c)].o.token
  ELSE TokenAt(c) = generateTokenFlyweight(c[1], c[2])

\* C5. World view: in every state every cell c reads as its override entry
\* when one is recorded and as generate(c) otherwise, an explicit absent
\* override reading as empty even where generate(c) is a token; and no step
\* other than a reset changes what a cell reads as unless the step is a
\* click on that very cell, so an untouched cell keeps reading as generate(c)
\* whatever was done elsewhere and in whatever order.
C5_WorldView ==
  /\ [](\A c \in Cells : Resolves(c))
  /\ [][\/ modifiedCells' = modifiedCells      \* then every cell reads as before
        \/ \A c \in Cells :
             (pc = "running" /\ ~ClickOn(c) /\ ~(ev'.op = "newGame" /\ ev'.exit = "reset"))
             => /\ TokenAfter(c) = TokenAt(c)
                /\ (KeyOf(c) \in DOMAIN modifiedCells') = (KeyOf(c) \in DOMAIN modifiedCells)]_vars

\* one emptied cell that would generate a token, beside an untouched cell
\* that still reads as its generated token
C5_Witness ==
  \E c \in Cells, d \in Cells :
    /\ KeyOf(c) \in DOMAIN modifiedCells
    /\ modifiedCells[KeyOf(c)] = Absent
    /\ generateTokenFlyweight(c[1], c[2]) # Null
    /\ TokenAt(c) = Null
    /\ KeyOf(d) \notin DOMAIN modifiedCells
    /\ IsToken(TokenAt(d))

ValueOf(v) == IF v.t = "number" THEN v.n ELSE 0

RECURSIVE SumCells(_, _)
SumCells(S, mc) ==
  IF S = {} THEN 0
  ELSE LET c == CHOOSE c \in S : TRUE
       IN ValueOf(getCellTokenIn(mc, c[1], c[2])) + SumCells(S \ {c}, mc)

TotalOf(h, mc) == ValueOf(h) + SumCells(Cells, mc)

TokenCount(h, mc) ==
  Cardinality({c \in Cells : IsToken(getCellTokenIn(mc, c[1], c[2]))})
  + (IF IsToken(h) THEN 1 ELSE 0)

\* C6. Conservation: no step other than a reset changes the sum of the token
\* values of the held slot and all cells; a pick-up keeps the number of
\* tokens, a merge lowers it by exactly one.
C6_Conservation ==
  [][(/\ pc = "running" /\ ~(ev'.op = "newGame" /\ ev'.exit = "reset")
       /\ <<held, modifiedCells>>' # <<held, modifiedCells>>)   \* else nothing to add up
      => /\ TotalOf(held', modifiedCells') = TotalOf(held, modifiedCells)
         /\ (ev'.op = "click" /\ ev'.exit = "pickup")
              => TokenCount(held', modifiedCells') = TokenCount(held, modifiedCells)
         /\ (ev'.op = "click" /\ ev'.exit = "merge")
              => TokenCount(held', modifiedCells') = TokenCount(held, modifiedCells) - 1
         /\ ev'.op # "click"
              => TokenCount(held', modifiedCells') = TokenCount(held, modifiedCells)]_vars

\* two merges done: the generated tokens 1, 1, 2, 4 have become 4 and 4
C6_Witness ==
  /\ ev.op = "click" /\ ev.exit = "merge"
  /\ TokenCount(held, modifiedCells) = TokenCount(Null, NoProps) - 2
  /\ TotalOf(held, modifiedCells) = TotalOf(Null, NoProps)

\* C7. No eviction: across every step other than a New Game reset (click,
\* manual move, position update, mode switch, viewport update, reload) every
\* key with an override entry keeps one.
C7_NoEviction ==
  [][(pc = "running" /\ ~(ev'.op = "newGame" /\ ev'.exit = "reset"))
      => DOMAIN modifiedCells \subseteq DOMAIN modifiedCells']_vars

\* the viewport has left an overridden cell: its layer is gone, its entry is not
C7_Witness ==
  /\ ev.op = "pan"
  /\ \E k \in DOMAIN modifiedCells : k \notin cellLayers

\* C8. Write-through: whenever the page is running (every handler has run to
\* completion), the stored snapshot holds the position, the held token, the
\* override entries and the movement mode that are in memory.
C8_WriteThrough ==
  pc = "running" =>
    /\ storage.k = "text"
    /\ storage.json.t = "object"
    /\ DOMAIN storage.json.o = {"playerI", "playerJ", "held", "modifiedCells", "movementMode"}
    /\ storage.json.o.playerI = playerI
    /\ storage.json.o.playerJ = playerJ
    /\ storage.json.o.held = held
    /\ storage.json.o.modifiedCells = Obj(modifiedCells)
    /\ storage.json.o.movementMode = Str(getMode(active))

\* after a step away from the start with a token in hand and a cell emptied
C8_Witness ==
  /\ ev.op \in {"button", "key"}
  /\ IsToken(held)
  /\ playerI # Num(0)
  /\ storage.k = "text"
  /\ storage.json.o.held = held
  /\ storage.json.o.playerI = playerI
  /\ modifiedCells # NoProps

\* C9. Round trip: reloading the page from the snapshot the running program
\* has saved restores the same position, held token, override entries
\* (absent ones included) and movement mode.
C9_RoundTrip ==
  [][(pc = "running" /\ ev'.op = "startup")
      => /\ pc' = "running"
         /\ playerI' = playerI
         /\ playerJ' = playerJ
         /\ held' = held
         /\ modifiedCells' = modifiedCells
         /\ getMode(active') = getMode(active)]_vars

\* a reload that brought back a held token, an absent entry, a position off
\* the start cell and the geolocation mode
C9_Witness ==
  /\ ev.op = "startup" /\ pc = "running"
  /\ IsToken(held)
  /\ \E k \in DOMAIN modifiedCells : modifiedCells[k] = Absent
  /\ playerI = Num(0 - 1)
  /\ active = "geolocation"

MalformedOverrides(item) ==
  /\ item.k = "text"
  /\ item.json.t = "object"
  /\ "modifiedCells" \in DOMAIN item.json.o
  /\ item.json.o.modifiedCells.t # "object"
  /\ GetProp(item.json, "playerI").t = "number"
  /\ GetProp(item.json, "playerJ").t = "number"

\* C10. Per-field defaulting of the overrides: when the stored snapshot has
\* an overrides field that is present but is not a mapping, and a valid
\* playerI and playerJ, the load gives an empty override store and the
\* stored player position.
C10_MalformedOverridesDefault ==
  [][(ev'.op = "startup" /\ MalformedOverrides(storage))
      => /\ modifiedCells' = NoProps
         /\ playerI' = storage.json.o.playerI
         /\ playerJ' = storage.json.o.playerJ]_vars

\* The field k of the stored snapshot (undefined when there is no snapshot
\* object or the field is missing).
StoredField(k) ==
  IF storage.k = "text" /\ storage.json \notin {Null, Undefined}
  THEN GetProp(storage.json, k) ELSE Undefined

\* What the claim asks of a loaded coordinate: the stored number, and 0 when
\* the field is absent or is not numeric.
LoadsCoordinate(stored, loaded) ==
  /\ stored.t = "number" => loaded = stored
  /\ (stored = Undefined \/ (stored.t = "string" /\ StringToNumber(stored.s) = NaN))
       => loaded = Num(0)

\* C11. Load is never fatal and defaults each field on its own: whatever
\* the stored item is (absent, unparsable, fields missing, a movementMode that
\* is not a mode, a playerI that is not numeric), startup leaves the engine
\* running, each such field at its default and the valid fields at their
\* stored values; an invalid movementMode gives the manual-step mode.
C11_LoadNeverFatal ==
  [][ev'.op = "startup"
      => /\ pc' = "running"
         /\ LoadsCoordinate(StoredField("playerI"), playerI')
         /\ LoadsCoordinate(StoredField("playerJ"), playerJ')
         /\ ~ValidMode(Coalesce(StoredField("movementMode"), Str("buttons")))
              => (active' = "buttons" /\ keyListener')]_vars

\* The step is a confirmed New Game.
Reset == ev'.op = "newGame" /\ ev'.exit = "reset"

\* C12. Reset restores the defaults in memory: a confirmed New Game, from
\* any state, ends at position (0, 0) with nothing held, no overrides, the
\* manual-step mode active with its key listener and no geolocation watch,
\* so that every cell reads as the generator gives it.
C12_ResetDefaults ==
  [][Reset
      => /\ playerI' = Num(0) /\ playerJ' = Num(0)
         /\ held' = Null
         /\ modifiedCells' = NoProps
         /\ active' = "buttons" /\ keyListener'
         /\ watches' = {} /\ watchId' = Null
         /\ \A c \in Cells : TokenAfter(c) = generateTokenFlyweight(c[1], c[2])]_vars

\* a reset after the geolocation mode had moved the player and while a
\* position callback was still queued
C12_Witness ==
  /\ ev.op = "newGame" /\ ev.exit = "reset"
  /\ lastSeenCell # Null /\ queued # {}
  /\ playerI = Num(0) /\ held = Null /\ modifiedCells = NoProps
  /\ active = "buttons" /\ watches = {}

\* The snapshot of the default state.
DefaultSnapshot ==
  Text(Obj([playerI |-> Num(0), playerJ |-> Num(0), held |-> Null,
            modifiedCells |-> Obj(NoProps), movementMode |-> Str("buttons")]))

\* The step changes nothing of the saved state: a rejected click, a declined
\* New Game, a pan of the map, a position queued by the browser, a position
\* in the cell already seen.
NotMutating ==
  \/ ev'.op = "click" /\ ev'.exit \in {"tooFar", "cannot"}
  \/ ev'.op = "newGame" /\ ev'.exit = "declined"
  \/ ev'.op \in {"pan", "fix"}
  \/ ev'.op = "geo" /\ ev'.exit = "same"

\* C13 as amended. When a confirmed New Game has completed, the storage key
\* holds a snapshot of the default state (position (0, 0), nothing held, no
\* overrides, manual-step mode): the old item is removed and a new one is
\* written by the same handler. The stored item then stays as it is until
\* the next state-mutating operation.
C13_ResetSnapshot ==
  [][/\ Reset => storage' = DefaultSnapshot
     /\ NotMutating => storage' = storage]_vars

\* a reset, taken after geolocation updates, that left the default snapshot
C13_Witness ==
  /\ ev.op = "newGame" /\ ev.exit = "reset"
  /\ storage = DefaultSnapshot
  /\ lastSeenCell # Null

\* C13. Reset deletes the snapshot: when a confirmed New Game has
\* completed, storage holds no item under the storage key.
C13_ResetDeletes == [][Reset => storage' = NoItem]_vars

\* C14. The position is written only by the active movement source: while
\* the mode is geolocation no manual step (arrow key or on-screen direction
\* button) changes playerI or playerJ, and while the mode is manual-step no
\* position update changes them.
C14_ActiveSourceOnly ==
  [][/\ (active = "geolocation" /\ ev'.op \in {"button", "key"})
          => (playerI' = playerI /\ playerJ' = playerJ)
     /\ (active = "buttons" /\ ev'.op = "geo")
          => (playerI' = playerI /\ playerJ' = playerJ)]_vars

\* C15. Mode switching keeps at most one source enabled: in every state
\* ButtonController's key listener and a geolocation watch are never both
\* registered, at most one watch is outstanding, and whatever is registered
\* belongs to the active controller.
C15_OneSource ==
  /\ ~(keyListener /\ watches # {})
  /\ Cardinality(watches) <= 1
  /\ keyListener => active = "buttons"
  /\ watches # {} => (active = "geolocation" /\ watchId # Null /\ watches = {watchId.n})

\* the geolocation mode entered again, from the manual-step mode, after an
\* earlier stay in it had processed a position
C15_Witness ==
  /\ ev.op = "toggle" /\ active = "geolocation"
  /\ lastSeenCell # Null
  /\ watches # {} /\ ~keyListener

\* The step is one in which the geolocation source could not be activated or
\* kept: the watch reported an error, or geolocation was asked for (by the
\* toggle, or at startup by the stored mode) and the browser has none.
CannotActivate ==
  \/ ev'.op = "geoError"
  \/ ev'.op = "toggle" /\ active = "buttons" /\ ~geoAvailable
  \/ /\ ev'.op = "startup" /\ ev'.exit = "ok" /\ ~geoAvailable
     /\ StoredField("movementMode") = Str("geolocation")

\* C16. Fallback to manual-step: whenever the geolocation source cannot be
\* activated, or its watch reports an error, the step leaves the engine
\* running in manual-step mode: getMode() is "buttons", the key listener is
\* registered, no watch is active and the saved movementMode is "buttons".
C16_Fallback ==
  [][CannotActivate
      => /\ pc' = "running"
         /\ active' = "buttons" /\ getMode(active') = "buttons"
         /\ keyListener'
         /\ watches' = {} /\ watchId' = Null
         /\ storage'.k = "text"
         /\ GetProp(storage'.json, "movementMode") = Str("buttons")]_vars

\* a watch that reported an error, after it had delivered a position
C16_Witness ==
  /\ ev.op = "geoError" /\ geoAvailable
  /\ lastSeenCell # Null
  /\ active = "buttons" /\ keyListener /\ watches = {}

\* C17. No mutation after disable: once the mode has been switched from
\* geolocation to manual-step, a position callback of the earlier watch that
\* runs afterwards changes neither playerI nor playerJ and saves nothing.
C17_NoMutationAfterDisable ==
  [][(ev'.op = "geo" /\ active = "buttons" /\ watches = {})
      => (playerI' = playerI /\ playerJ' = playerJ /\ storage' = storage)]_vars

\* C18. Live-position snapping: in geolocation mode, when a position update
\* has been processed the player stands on the cell that contains the
\* reported position (ev records that cell), whatever mode switches, manual
\* moves, resets and earlier updates came before.
C18_Snapping ==
  [][(ev'.op = "geo" /\ active = "geolocation")
      => (playerI' = Num(ev'.i) /\ playerJ' = Num(ev'.j))]_vars

\* The step is a merge that placed, or a pick-up that took, a token of at
\* least the winning value.
ReachesWinValue ==
  /\ ev'.op = "click"
  /\ \/ /\ ev'.exit = "merge"
        /\ LET placed == TokenAfter(<<ev'.i, ev'.j>>) IN
           placed.t = "number" /\ placed.n >= WIN_VALUE
     \/ /\ ev'.exit = "pickup"
        /\ held'.t = "number" /\ held'.n >= WIN_VALUE

\* C19. Win signal: whenever a merge places, or a pick-up takes, a token of
\* value 32 or more, the step shows a win to the player.
C19_WinSignal == [][ReachesWinValue => inventoryDiv'.win]_vars

\* The cell of the position update the step processed, as the callback
\* computes it.
UpdateCell == Obj([k \in {"i", "j"} |-> IF k = "i" THEN Num(ev'.i) ELSE Num(ev'.j)])

\* C20. Debounce by cell: a position update that falls in the cell of the
\* previously processed update (lastSeenCell, which every processed update
\* leaves equal to its own cell) changes nothing: position, held token,
\* overrides, drawn cells and snapshot stay as they are. Any other update
\* moves the player to its cell and saves the new position.
C20_Debounce ==
  [][ev'.op = "geo"
      => /\ lastSeenCell' = UpdateCell
         /\ IF lastSeenCell = UpdateCell
            THEN /\ ev'.exit = "same"
                 /\ playerI' = playerI /\ playerJ' = playerJ
                 /\ held' = held /\ modifiedCells' = modifiedCells
                 /\ cellLayers' = cellLayers
                 /\ storage' = storage
            ELSE /\ ev'.exit = "moved"
                 /\ playerI' = Num(ev'.i) /\ playerJ' = Num(ev'.j)
                 /\ storage'.k = "text"
                 /\ GetProp(storage'.json, "playerI") = Num(ev'.i)
                 /\ GetProp(storage'.json, "playerJ") = Num(ev'.j)]_vars

\* a position update in the cell of the one before it, processed in
\* geolocation mode after a manual step had moved the player off that cell
C20_Witness ==
  /\ ev.op = "geo" /\ ev.exit = "same"
  /\ active = "geolocation"
  /\ lastSeenCell # Null
  /\ playerI # GetProp(lastSeenCell, "i")

\* v is a token whose value is a positive power of two.
PowerOfTwo(v) == v.t = "number" /\ v.n > 0 /\ \E k \in 0..v.n : 2 ^ k = v.n

\* C21. Token values stay in the power-of-two progression: from the default
\* state on, the held token (if any), every token recorded in the override
\* store and every token the generator gives is a positive power of two, and
\* the generator gives only 1, 2 and 4.
C21_PowersOfTwo ==
  pc = "running"
    => /\ held = Null \/ PowerOfTwo(held)
       /\ \A k \in DOMAIN modifiedCells :
            LET t == GetProp(modifiedCells[k], "token") IN t = Null \/ PowerOfTwo(t)
       /\ \A c \in Cells :
            LET g == generateTokenFlyweight(c[1], c[2]) IN
            /\ g \in {Null, Num(1), Num(2), Num(4)}
            /\ TokenAt(c) = Null \/ PowerOfTwo(TokenAt(c))

\* three merges in a row have put a token of value 8 on a cell
C21_Witness ==
  /\ pc = "running" /\ held = Null
  /\ \E k \in DOMAIN modifiedCells : modifiedCells[k] = Obj(Prop("token", Num(8)))

\* Cell c has the explicit override "absent", before and after the step.
AbsentAt(c) ==
  /\ KeyOf(c) \in DOMAIN modifiedCells /\ modifiedCells[KeyOf(c)] = Absent
  /\ TokenAt(c) = Null
AbsentAfter(c) ==
  /\ KeyOf(c) \in DOMAIN modifiedCells' /\ modifiedCells'[KeyOf(c)] = Absent
  /\ TokenAfter(c) = Null

\* C22. Held-token exclusivity: the one held slot is empty or holds one
\* token; a pick-up from cell c leaves c recorded as absent, and as long as
\* the token stays in hand every step, whether a move, a mode switch, a
\* rejected click, a pan or a reload, leaves c recorded as absent, so the held
\* token is never also on the cell it was taken from.
C22_HeldExclusive ==
  [][/\ pc' = "running" => (held' = Null \/ IsToken(held'))
     /\ (ev'.op = "click" /\ ev'.exit = "pickup")
          => (IsToken(held') /\ AbsentAfter(<<ev'.i, ev'.j>>))
     /\ (IsToken(held) /\ held' # Null)
          => /\ held' = held
             /\ \/ modifiedCells' = modifiedCells
                \/ \A c \in Cells : AbsentAt(c) => AbsentAfter(c)]_vars

\* a token still in hand, its cell recorded as absent, after the player
\* moved off the start cell in geolocation mode and a click was rejected
C22_Witness ==
  /\ ev.op = "click" /\ ev.exit \in {"tooFar", "cannot"}
  /\ IsToken(held)
  /\ \E k \in DOMAIN modifiedCells : modifiedCells[k] = Absent
  /\ active = "geolocation" /\ playerI # Num(0)

\* C23. Emptied cells stay empty: in every step other than a reset, a cell
\* that is recorded as absent stays recorded as absent and a click on it is
\* rejected; and the number of tokens (cells that read as a token, plus the
\* held one) does not grow, a merge lowering it by exactly one.
C23_EmptiedStayEmpty ==
  [][(pc = "running" /\ ~Reset)
      => /\ \/ modifiedCells' = modifiedCells
            \/ \A c \in Cells : AbsentAt(c) => AbsentAfter(c)
         /\ (ev'.op = "click" /\ AbsentAt(<<ev'.i, ev'.j>>))
              => /\ ev'.exit \in {"tooFar", "cannot"}
                 /\ held' = held /\ modifiedCells' = modifiedCells
         /\ \/ <<held, modifiedCells>>' = <<held, modifiedCells>>
            \/ /\ TokenCount(held', modifiedCells') <= TokenCount(held, modifiedCells)
               /\ (ev'.op = "click" /\ ev'.exit = "merge")
                    => TokenCount(held', modifiedCells') = TokenCount(held, modifiedCells) - 1]_vars

\* a click, within range and with a token in hand, on a cell a token had
\* been picked up from: rejected, the cell is still recorded as absent
C23_Witness ==
  /\ ev.op = "click" /\ ev.exit = "cannot"
  /\ IsToken(held)
  /\ AbsentAt(<<ev.i, ev.j>>)

\* The step is a manual move, a position update (queued or processed), a
\* mode switch (by the toggle or by a watch error) or a viewport update.
MoveOrView == ev'.op \in {"button", "key", "fix", "geo", "toggle", "geoError", "pan"}

\* C24. Movement and viewport changes do not touch inventory or world
\* content: every manual move, position update, mode switch and viewport
\* update leaves the held token and the override store, keys and entries,
\* as they are; the override store changes only in a pick-up, a merge or a
\* reset.
C24_MoveKeepsWorld ==
  [][pc = "running"
      => /\ MoveOrView => (held' = held /\ modifiedCells' = modifiedCells)
         /\ modifiedCells' # modifiedCells
              => (Reset \/ (ev'.op = "click" /\ ev'.exit \in {"pickup", "merge"}))]_vars

\* a position update moved the player while a token was in hand and a
\* crafted token lay on a cell
C24_Witness ==
  /\ ev.op = "geo" /\ ev.exit = "moved"
  /\ IsToken(held)
  /\ \E k \in DOMAIN modifiedCells : IsToken(GetProp(modifiedCells[k], "token"))

====
